---- MODULE Spec2Model ----
(***************************************************************************)
(* The streaming response parser of the shopping assistant                 *)
(* (src/lambda/websocket/stream_parser.py, class StreamParser) as a state  *)
(* machine.  Text is a sequence of one-character strings, so that marker   *)
(* detection, the 20-character safety margin, strip() and split(',') are   *)
(* computed character by character as the Python code computes them.       *)
(***************************************************************************)
EXTENDS Integers, Sequences, FiniteSets, TLC

\* ------------------------------------------------------------------ bounds

\* Largest number of flush() calls in one session.
MaxFlush == 1

\* Largest number of increments of a scripted stream (SpecScript).
MaxChunks == 3

\* ------------------------------------------------------ program constants

\* _send_safe_text keeps the last 20 characters of the buffer.
SafeMargin == 20

\* _send_to_connection tries post_to_connection three times.
max_retries == 3

\* ------------------------------------------------------- marker literals

PRODUCTS_OPEN ==
    <<"<", "|", "P", "R", "O", "D", "U", "C", "T", "S", "|", ">">>
ORDERS_OPEN ==
    <<"<", "|", "O", "R", "D", "E", "R", "S", "|", ">">>
PRODUCTS_CLOSE ==
    <<"<", "|", "/", "P", "R", "O", "D", "U", "C", "T", "S", "|", ">">>
PRODUCTS_CLOSE_NOBAR ==
    <<"<", "|", "/", "P", "R", "O", "D", "U", "C", "T", "S", ">">>
PRODUCTS_CLOSE_ALT ==
    <<"<", "/", "|", "P", "R", "O", "D", "U", "C", "T", "S", "|", ">">>
ORDERS_CLOSE ==
    <<"<", "|", "/", "O", "R", "D", "E", "R", "S", "|", ">">>
ORDERS_CLOSE_NOBAR ==
    <<"<", "|", "/", "O", "R", "D", "E", "R", "S", ">">>
ORDERS_CLOSE_ALT ==
    <<"<", "/", "|", "O", "R", "D", "E", "R", "S", "|", ">">>

\* The alternatives of the closing group of each pattern.
PRODUCTS_CLOSERS == {PRODUCTS_CLOSE, PRODUCTS_CLOSE_NOBAR, PRODUCTS_CLOSE_ALT}
ORDERS_CLOSERS == {ORDERS_CLOSE, ORDERS_CLOSE_NOBAR, ORDERS_CLOSE_ALT}

\* --------------------------------------------------- Python str operations

Min(S) == CHOOSE x \in S : \A y \in S : x <= y

\* Characters str.strip() removes.
IsSpace(c) == c \in {" ", "\n", "\t"}

\* m occurs in s at index i (1-based).
OccursAt(s, m, i) ==
    /\ i >= 1
    /\ i + Len(m) - 1 <= Len(s)
    /\ \A k \in 1..Len(m) : s[i + k - 1] = m[k]

\* The indices at which m occurs in s.
Occurrences(s, m) == {i \in 1..Len(s) : OccursAt(s, m, i)}

\* `m in s`.
Contains(s, m) == Occurrences(s, m) # {}

\* s.find(m): the first index (1-based) of m in s, 0 when absent (Python -1).
find(s, m) == IF Contains(s, m) THEN Min(Occurrences(s, m)) ELSE 0

\* s.strip().
strip(s) ==
    LET keep == {i \in 1..Len(s) : ~IsSpace(s[i])}
    IN  IF keep = {} THEN <<>>
        ELSE SubSeq(s, Min(keep), CHOOSE j \in keep : \A i \in keep : i <= j)

\* s.split(','): the maximal comma-free pieces, in order.
RECURSIVE split(_)
split(s) ==
    LET commas == {i \in 1..Len(s) : s[i] = ","}
    IN  IF commas = {} THEN <<s>>
        ELSE <<SubSeq(s, 1, Min(commas) - 1)>>
                 \o split(SubSeq(s, Min(commas) + 1, Len(s)))

\* [id.strip() for id in data.split(',') if id.strip()]
RECURSIVE StripAll(_)
StripAll(pieces) ==
    IF pieces = <<>> THEN <<>>
    ELSE (IF strip(Head(pieces)) = <<>> THEN <<>> ELSE <<strip(Head(pieces))>>)
             \o StripAll(Tail(pieces))

parse_ids(data) == StripAll(split(data))

\* x in a Python list.
InList(x, l) == \E k \in 1..Len(l) : l[k] = x

\* re.search of  open(.*?)(?:c1|c2|c3)  with DOTALL: the match starts at the
\* first occurrence of the open marker and the lazy group ends at the first
\* position after it where one of the closers occurs.  found is FALSE when the
\* search returns None; start is match.start() as a 1-based index, group is
\* match.group(1).
search(open, closers, s) ==
    LET i == find(s, open)
        ends == {j \in (i + Len(open))..Len(s) :
                     \E c \in closers : OccursAt(s, c, j)}
    IN  IF i = 0 \/ ends = {}
        THEN [found |-> FALSE, start |-> 0, group |-> <<>>]
        ELSE [found |-> TRUE, start |-> i,
              group |-> SubSeq(s, i + Len(open), Min(ends) - 1)]

PRODUCTS_PATTERN(s) == search(PRODUCTS_OPEN, PRODUCTS_CLOSERS, s)
ORDERS_PATTERN(s) == search(ORDERS_OPEN, ORDERS_CLOSERS, s)

\* ---------------------------------------------------------- the output sink

\* A sink state: the number of post_to_connection calls that will still fail,
\* or Gone when the connection is lost and every call fails.
Gone == -1

\* The sinks a session may start with: healthy, one failing post (the retry
\* succeeds), max_retries - 1 failing posts (the last retry succeeds),
\* max_retries failing posts (one event is lost, then the sink recovers), and
\* a lost connection.
SinkStates == {0, 1, max_retries - 1, max_retries, Gone}

\* ------------------------------------------------------------- StreamParser
\* A parser object is a record of its fields; every method is an operator from
\* the object (and its arguments) to the object after the call.  The field exc
\* is TRUE while an exception is propagating out of the call.

\* StreamParser.__init__
StreamParser(sink_state, sr, ol) ==
    [buffer |-> <<>>, complete_response |-> <<>>, content_sent |-> FALSE,
     sections_found |-> 0, search_results |-> sr, orders_list |-> ol,
     events |-> <<>>, sink |-> sink_state, exc |-> FALSE]

_send_to_connection_one_more_post(self, data) ==
    LET fails == IF self.sink = Gone \/ self.sink > max_retries
                 THEN max_retries + 1 ELSE self.sink
        ok == fails <= max_retries
    IN  [self EXCEPT
            !.events = Append(@, [data |-> data,
                                  posts |-> IF ok THEN fails + 1 ELSE max_retries + 1,
                                  ok |-> ok]),
            !.sink = IF @ = Gone THEN Gone ELSE @ - Min({@, fails}),
            !.exc = ~ok]

\* _send_to_connection: up to max_retries posts; returns at the first success,
\* re-raises after the last failure.  Each call is logged with the number of
\* posts made and whether the event was delivered.
_send_to_connection(self, data) ==
    LET fails == IF self.sink = Gone \/ self.sink >= max_retries
                 THEN max_retries ELSE self.sink
        ok == fails < max_retries
    IN  [self EXCEPT
            !.events = Append(@, [data |-> data,
                                  posts |-> IF ok THEN fails + 1 ELSE max_retries,
                                  ok |-> ok]),
            !.sink = IF @ = Gone THEN Gone ELSE @ - fails,
            !.exc = ~ok]

\* _send_text_chunk without its try/except: a failed send propagates.
_send_text_chunk_unguarded(self, text) ==
    IF strip(text) = <<>> THEN self
    ELSE _send_to_connection(self, [type |-> "text_chunk", content |-> text])

\* _send_text_chunk: blank text is not sent; a failed send is swallowed.
_send_text_chunk(self, text) ==
    IF strip(text) = <<>> THEN self
    ELSE [_send_to_connection(self, [type |-> "text_chunk", content |-> text])
              EXCEPT !.exc = FALSE]

\* _send_products building the batch by walking the ids instead of the search
\* results: the batch comes out in the list's order, a hit once per mention.
_send_products_in_list_order(self, product_data) ==
    LET item_ids == parse_ids(product_data)
        hits_of(id) == SelectSeq(self.search_results,
                                 LAMBDA result : result._source.id = id)
        RECURSIVE hits_of_each(_)
        hits_of_each(ids) ==
            IF ids = <<>> THEN <<>> ELSE hits_of(Head(ids)) \o hits_of_each(Tail(ids))
        highlighted_products == hits_of_each(item_ids)
    IN  IF item_ids = <<>> \/ self.search_results = <<>> THEN self
        ELSE IF highlighted_products = <<>> THEN self
        ELSE [_send_to_connection(self, [type |-> "product_search",
                                         results |-> highlighted_products])
                  EXCEPT !.exc = FALSE]

\* _send_products: one product_search event with the search results whose
\* _source.id is among the ids, in the order of the search results.
_send_products(self, product_data) ==
    LET item_ids == parse_ids(product_data)
        highlighted_products ==
            SelectSeq(self.search_results,
                      LAMBDA result : InList(result._source.id, item_ids))
    IN  IF item_ids = <<>> \/ self.search_results = <<>> THEN self
        ELSE IF highlighted_products = <<>> THEN self
        ELSE [_send_to_connection(self, [type |-> "product_search",
                                         results |-> highlighted_products])
                  EXCEPT !.exc = FALSE]

\* The lookup taking the last matching order instead of the first.
matching_order_last(orders, order_id) ==
    LET hits == {k \in 1..Len(orders) : orders[k].order_id = order_id}
    IN  IF hits = {} THEN 0 ELSE CHOOSE k \in hits : \A j \in hits : j <= k

\* next(order for order in orders_list if order_id matches, None): the index
\* of the first matching order, 0 for None.
matching_order(orders, order_id) ==
    LET hits == {k \in 1..Len(orders) : orders[k].order_id = order_id}
    IN  IF hits = {} THEN 0 ELSE Min(hits)

\* The for loop of _send_orders: one order event per id with a match; an
\* exception raised by a send leaves the loop.
RECURSIVE send_each_order(_, _)
send_each_order(self, order_ids) ==
    IF order_ids = <<>> \/ self.exc THEN self
    ELSE LET k == matching_order(self.orders_list, Head(order_ids))
             sent == IF k = 0 THEN self
                     ELSE _send_to_connection(self,
                              [type |-> "order",
                               content |->
                                   [order_id |-> self.orders_list[k].order_id,
                                    order_date |-> self.orders_list[k].timestamp,
                                    status |-> self.orders_list[k].delivery_status]])
         IN  send_each_order(sent, Tail(order_ids))

\* _send_orders
_send_orders(self, order_data) ==
    LET order_ids == parse_ids(order_data)
    IN  IF order_ids = <<>> \/ self.orders_list = <<>> THEN self
        ELSE [send_each_order(self, order_ids) EXCEPT !.exc = FALSE]

\* _mark_content_sent clearing the buffer but leaving the flag unset.
_mark_content_sent_flag_unset(self) ==
    [self EXCEPT !.buffer = <<>>]

\* _mark_content_sent
_mark_content_sent(self) ==
    [self EXCEPT !.content_sent = TRUE, !.buffer = <<>>]

\* The body shared by _process_products_section and _process_orders_section:
\* text before the section, the section's events, then the mark; the except
\* branch sends the whole buffer as text.
process_section(self, match, section) ==
    LET before_section == SubSeq(self.buffer, 1, match.start - 1)
        s1 == IF strip(before_section) # <<>>
              THEN _send_text_chunk(self, before_section) ELSE self
        s2 == IF section = "products" THEN _send_products(s1, strip(match.group))
              ELSE _send_orders(s1, strip(match.group))
        s3 == [_mark_content_sent(s2) EXCEPT !.sections_found = @ + 1]
    IN  IF s1.exc THEN _send_text_chunk([s1 EXCEPT !.exc = FALSE], s1.buffer)
        ELSE IF s2.exc THEN _send_text_chunk([s2 EXCEPT !.exc = FALSE], s2.buffer)
        ELSE s3

_process_products_section(self, match) ==
    process_section(self, match, "products")

_process_orders_section(self, match) ==
    process_section(self, match, "orders")

\* _process_complete_sections trying the orders pattern first.
_process_complete_sections_orders_first(self) ==
    LET products_match == PRODUCTS_PATTERN(self.buffer)
        orders_match == ORDERS_PATTERN(self.buffer)
    IN  IF orders_match.found
        THEN [result |-> TRUE, self |-> _process_orders_section(self, orders_match)]
        ELSE IF products_match.found
        THEN [result |-> TRUE, self |-> _process_products_section(self, products_match)]
        ELSE [result |-> FALSE, self |-> self]

\* _process_complete_sections: the products pattern is searched first.
\* result is the returned boolean, self the object after the call.
_process_complete_sections(self) ==
    LET products_match == PRODUCTS_PATTERN(self.buffer)
        orders_match == ORDERS_PATTERN(self.buffer)
    IN  IF products_match.found
        THEN [result |-> TRUE, self |-> _process_products_section(self, products_match)]
        ELSE IF orders_match.found
        THEN [result |-> TRUE, self |-> _process_orders_section(self, orders_match)]
        ELSE [result |-> FALSE, self |-> self]

\* _has_partial_markers: six of the eight marker literals.
_has_partial_markers(self) ==
    \/ Contains(self.buffer, PRODUCTS_OPEN)
    \/ Contains(self.buffer, ORDERS_OPEN)
    \/ Contains(self.buffer, PRODUCTS_CLOSE)
    \/ Contains(self.buffer, ORDERS_CLOSE)
    \/ Contains(self.buffer, PRODUCTS_CLOSE_ALT)
    \/ Contains(self.buffer, ORDERS_CLOSE_ALT)

\* _handle_partial_sections: earliest_pos is len(buffer) when no open marker
\* is in the buffer (0-based position, as in the code).
_handle_partial_sections(self) ==
    LET starts == {find(self.buffer, m) - 1 :
                       m \in {mk \in {PRODUCTS_OPEN, ORDERS_OPEN} :
                                  Contains(self.buffer, mk)}}
        earliest_pos == IF starts = {} THEN Len(self.buffer) ELSE Min(starts)
        safe_text == SubSeq(self.buffer, 1, earliest_pos)
    IN  IF earliest_pos > 0
        THEN [_send_text_chunk(self, safe_text) EXCEPT
                 !.buffer = SubSeq(self.buffer, earliest_pos + 1, Len(self.buffer))]
        ELSE self

\* _send_safe_text withholding nothing: the whole buffer is sent at once.
_send_safe_text_no_margin(self) ==
    IF self.buffer = <<>> THEN self
    ELSE LET safe_text == self.buffer
             cut == [self EXCEPT !.buffer = <<>>]
         IN  IF strip(safe_text) # <<>> THEN _send_text_chunk(cut, safe_text) ELSE cut

\* _send_safe_text: everything but the last SafeMargin characters leaves the
\* buffer and is sent unless it is blank.
_send_safe_text(self) ==
    IF Len(self.buffer) <= SafeMargin THEN self
    ELSE LET safe_length == Len(self.buffer) - SafeMargin
             safe_text == SubSeq(self.buffer, 1, safe_length)
             cut == [self EXCEPT
                        !.buffer = SubSeq(self.buffer, safe_length + 1, Len(self.buffer))]
         IN  IF strip(safe_text) # <<>> THEN _send_text_chunk(cut, safe_text) ELSE cut

\* _handle_streaming_text
_handle_streaming_text(self) ==
    IF _has_partial_markers(self) THEN _handle_partial_sections(self)
    ELSE _send_safe_text(self)

\* parse_chunk
parse_chunk(self, text_chunk) ==
    IF text_chunk = <<>> THEN self
    ELSE LET s0 == [self EXCEPT !.complete_response = @ \o text_chunk,
                                !.buffer = @ \o text_chunk]
             done == _process_complete_sections(s0)
         IN  IF s0.content_sent THEN s0
             ELSE IF done.result THEN done.self
             ELSE _handle_streaming_text(s0)

\* flush
flush(self) ==
    [_send_text_chunk(self, self.buffer) EXCEPT !.buffer = <<>>]

\* finalize sending the remaining text whether or not a section was sent.
finalize_ignoring_content_sent(self) ==
    LET s1 == IF strip(self.buffer) # <<>>
              THEN _send_text_chunk(self, self.buffer) ELSE self
        s2 == IF s1.exc THEN s1 ELSE _send_to_connection(s1, [type |-> "stream_end"])
    IN  [s2 EXCEPT !.exc = FALSE, !.buffer = <<>>]

\* finalize: try (remaining text, stream_end), except (swallow), finally
\* (clear the buffer).
finalize(self) ==
    LET s1 == IF ~self.content_sent /\ strip(self.buffer) # <<>>
              THEN _send_text_chunk(self, self.buffer) ELSE self
        s2 == IF s1.exc THEN s1 ELSE _send_to_connection(s1, [type |-> "stream_end"])
    IN  [s2 EXCEPT !.exc = FALSE, !.buffer = <<>>]

\* ------------------------------------------------- streams and references

TxtItems ==
    <<"H", "e", "r", "e", " ", "a", "r", "e", " ", "y", "o", "u", "r", " ", "i", "t", "e",
      "m", "s", ":", " ">>
TxtPicks ==
    <<"T", "o", "p", " ", "p", "i", "c", "k", "s", ":", " ">>
TxtEnjoy ==
    <<" ", "e", "n", "j", "o", "y">>
TxtOrders ==
    <<"\n", "Y", "o", "u", "r", " ", "r", "e", "c", "e", "n", "t", " ", "o", "r", "d", "e",
      "r", "s", ":", " ">>
TxtFoo ==
    <<" ", "f", "o", "o", " ">>
TxtBye ==
    <<" ", "b", "y", "e">>
TxtPlain ==
    <<"S", "o", "r", "r", "y", ",", " ", " ", "n", "o", "t", "h", "i", "n", "g", " ", "f",
      "o", "u", "n", "d", " ", "t", "o", "d", "a", "y", ".">>
TxtBlank ==
    <<" ", "\n">>
IdsP1P2 ==
    <<"p", "1", ",", "p", "2">>
IdsP3P1 ==
    <<"p", "3", ",", " ", "p", "1">>
IdsP1 ==
    <<"p", "1">>
IdsP2 ==
    <<"p", "2">>
IdsZZ ==
    <<"z", "z">>
IdsABC ==
    <<"A", ",", "B", ",", "C">>
IdsDups ==
    <<"B", ",", " ", ",", "A", ",", "B">>
IdsNone ==
    <<" ", ",">>
IdsA ==
    <<"A">>

\* A search hit as the search tool returns it: the product under _source.
Hit(id, name) == [_source |-> [id |-> id, name |-> name]]

\* An order record as the order-history tool returns it.
Order(id, ts, st, total) ==
    [order_id |-> id, timestamp |-> ts, delivery_status |-> st, total |-> total]

SearchP1P2 == <<Hit(IdsP1, "mug"), Hit(IdsP2, "lamp")>>
SearchP1P2P3 == <<Hit(IdsP1, "mug"), Hit(IdsP2, "lamp"), Hit(<<"p", "3">>, "rug")>>
SearchDup == <<Hit(IdsP2, "lamp"), Hit(IdsP1, "mug"), Hit(IdsP2, "lamp, boxed")>>
OrdersAB ==
    <<Order(<<"A">>, "2024-01-05", "Delivered", 25),
      Order(<<"B">>, "2024-02-11", "Shipped", 40)>>
OrdersABB ==
    <<Order(<<"A">>, "2024-01-05", "Delivered", 25),
      Order(<<"B">>, "2024-02-11", "Shipped", 40),
      Order(<<"B">>, "2024-03-02", "Cancelled", 40)>>

Scenario(text, sr, ol) == [text |-> text, search_results |-> sr, orders_list |-> ol]

\* The end-to-end scenario of the specification.
ItemsScenario ==
    Scenario(TxtItems \o PRODUCTS_OPEN \o IdsP1P2 \o PRODUCTS_CLOSE, SearchP1P2, <<>>)

\* A stray close marker before a well-formed section.
StrayScenario ==
    Scenario(ORDERS_CLOSE \o TxtFoo \o PRODUCTS_OPEN \o IdsP1 \o PRODUCTS_CLOSE,
             SearchP1P2P3, OrdersAB)

\* A complete Orders section followed by a complete Products section.
BothScenario ==
    Scenario(ORDERS_OPEN \o IdsA \o ORDERS_CLOSE
                 \o PRODUCTS_OPEN \o IdsP1 \o PRODUCTS_CLOSE,
             SearchP1P2P3, OrdersAB)

\* The streams a session may receive, each with the reference collections the
\* parser is created with.
Scenarios ==
    { Scenario(TxtPicks \o PRODUCTS_OPEN \o IdsP3P1 \o PRODUCTS_CLOSE_NOBAR \o TxtEnjoy,
               SearchP1P2P3, <<>>),
      Scenario(TxtOrders \o ORDERS_OPEN \o IdsABC \o ORDERS_CLOSE, <<>>, OrdersAB),
      Scenario(ORDERS_OPEN \o IdsDups \o ORDERS_CLOSE_ALT \o TxtBye, <<>>, OrdersABB),
      StrayScenario,
      BothScenario,
      Scenario(PRODUCTS_OPEN \o IdsP1 \o PRODUCTS_CLOSE
                   \o ORDERS_OPEN \o IdsA \o ORDERS_CLOSE,
               SearchP1P2P3, OrdersAB),
      Scenario(PRODUCTS_OPEN \o IdsZZ \o PRODUCTS_CLOSE \o TxtBye, SearchP1P2, <<>>),
      Scenario(PRODUCTS_OPEN \o IdsP1 \o PRODUCTS_CLOSE \o TxtBye, <<>>, <<>>),
      Scenario(ORDERS_OPEN \o IdsNone \o ORDERS_CLOSE \o TxtBye, <<>>, OrdersAB),
      Scenario(TxtBlank \o PRODUCTS_OPEN \o IdsP2 \o PRODUCTS_CLOSE_ALT, SearchDup, <<>>),
      Scenario(TxtPlain, SearchP1P2, OrdersAB) }

\* The streams whose increments are fixed in advance (SpecScript).
ScriptScenarios == {ItemsScenario, StrayScenario, BothScenario}

\* The ways of cutting text into at most n non-empty increments.
RECURSIVE Chunkings(_, _)
Chunkings(text, n) ==
    IF n <= 1 \/ Len(text) <= 1 THEN {<<text>>}
    ELSE {<<text>>} \cup
         UNION { { <<SubSeq(text, 1, i)>> \o rest :
                       rest \in Chunkings(SubSeq(text, i + 1, Len(text)), n - 1) } :
                 i \in 1..(Len(text) - 1) }

\* The characters at which the generator's tokens end or begin: it delivers
\* words whole and every delimiter as a token of its own.
Delims == {" ", "\n", ",", "<", ">", "/"}

\* The offsets of text at which a token ends.
TokenEnds(text) ==
    {k \in 1..Len(text) :
        k = Len(text) \/ text[k] \in Delims \/ text[k + 1] \in Delims}

RECURSIVE Flatten(_)
Flatten(chunks) ==
    IF chunks = <<>> THEN <<>> ELSE Head(chunks) \o Flatten(Tail(chunks))

\* ------------------------------------------------------------------- state

VARIABLES
    buffer,             \* StreamParser.buffer
    complete_response,  \* StreamParser.complete_response
    content_sent,       \* StreamParser.content_sent
    sections_found,     \* StreamParser.sections_found
    search_results,     \* StreamParser.search_results
    orders_list,        \* StreamParser.orders_list
    events,             \* the calls of _send_to_connection so far, in order
    sink,               \* the output sink: failing posts still to come, or Gone
    raised,             \* an exception left parse_chunk, flush or finalize
    plan,               \* the increments of the stream as the generator cut them
    stream,             \* the increments not yet received
    flushes,            \* number of flush() calls so far
    closed,             \* finalize() has been called
    turn,               \* the user turn around the parser: handler()'s position and decisions
    conversations,      \* the conversations table: the messages stored under each key
    writers             \* the calls of add_message_to_handler in progress

vars ==
    <<buffer, complete_response, content_sent, sections_found, search_results,
      orders_list, events, sink, raised, plan, stream, flushes, closed, turn,
      conversations, writers>>

\* The parser object in the current state.
Self ==
    [buffer |-> buffer, complete_response |-> complete_response,
     content_sent |-> content_sent, sections_found |-> sections_found,
     search_results |-> search_results, orders_list |-> orders_list,
     events |-> events, sink |-> sink, exc |-> FALSE]

\* The parser object after a call becomes the state.
Becomes(q) ==
    /\ buffer' = q.buffer
    /\ complete_response' = q.complete_response
    /\ content_sent' = q.content_sent
    /\ sections_found' = q.sections_found
    /\ events' = q.events
    /\ sink' = q.sink
    /\ raised' = (raised \/ q.exc)
    /\ UNCHANGED <<search_results, orders_list, plan, writers>>

\* The record of a user turn at position pc of handler().
TurnAt(pc, use_agent) ==
    [pc |-> pc, use_agent |-> use_agent, classifier |-> "none",
     classifier_calls |-> 0, assistant_number |-> "none", handler |-> "none",
     tool_uses |-> 0, persisted |-> 0, failure |-> "none", status |-> 0,
     handed |-> <<>>, lost |-> "none", sessions |-> 0, tools |-> 0,
     generations |-> 0, executions |-> 0, calls |-> 0, ignored |-> 0,
     input |-> <<>>, loaded |-> <<>>, store |-> "up"]

\* In the specifications of the parser alone the caller is left open: any
\* caller may pass increments, flush and finalize.
NoTurn == TurnAt("caller", FALSE)

\* The keys of the conversations table within one session: the handler_type
\* of the object that reads or writes.
HandlerTypes ==
    {"base", "order_history", "product_search", "general_inquiry", "product_details"}

\* The table with no conversation stored.
NoConversations == [h \in HandlerTypes |-> <<>>]

\* get_handler_conversation reads the last 10 messages by default.
HistoryLimit == 10

\* add_message_to_handler trims a conversation of more than 20 messages to
\* its last 15.
TrimAbove == 20

TrimTo == 15

\* messages[-n:]
LastN(messages, n) ==
    SubSeq(messages, IF Len(messages) > n THEN Len(messages) - n + 1 ELSE 1, Len(messages))

\* A stored message; by names the object that wrote it.
Message(role, content, by) == [role |-> role, content |-> content, by |-> by]

\* add_message_to_handler when no other call runs between its two updates:
\* the message is appended, and a list of more than TrimAbove messages is
\* replaced by its last TrimTo.
add_message_to_handler(table, handler_type, message) ==
    LET messages == Append(table[handler_type], message)
    IN  [table EXCEPT ![handler_type] =
            IF Len(messages) > TrimAbove THEN LastN(messages, TrimTo) ELSE messages]

\* save_message_to_handler: the table after the call, which swallows a
\* failure of the write.  up tells whether the table answers.
save_message_to_handler(table, up, handler_type, message) ==
    IF up THEN add_message_to_handler(table, handler_type, message) ELSE table

\* get_handler_conversation: the last limit messages in the generator's
\* format.
get_handler_conversation(table, handler_type, limit) ==
    LET messages == LastN(table[handler_type], limit)
    IN  [k \in 1..Len(messages) |->
            [role |-> messages[k].role, content |-> messages[k].content]]

\* build_conversation_history: the handler's history with the current user
\* message added at the end.
build_conversation_history(table, handler_type, user_message) ==
    Append(get_handler_conversation(table, handler_type, HistoryLimit),
           [role |-> "user", content |-> user_message])

\* A fresh parser for the stream of scenario sc, cut into the increments p.
Start(sc, p, sink_state) ==
    LET q == StreamParser(sink_state, sc.search_results, sc.orders_list)
    IN  /\ buffer = q.buffer
        /\ complete_response = q.complete_response
        /\ content_sent = q.content_sent
        /\ sections_found = q.sections_found
        /\ search_results = q.search_results
        /\ orders_list = q.orders_list
        /\ events = q.events
        /\ sink = q.sink
        /\ raised = FALSE
        /\ plan = p
        /\ stream = p
        /\ flushes = 0
        /\ closed = FALSE
        /\ turn = NoTurn
        /\ conversations = NoConversations
        /\ writers = <<>>

\* The generator cuts the stream into increments of one or more whole tokens;
\* the sink is any of SinkStates.
Init ==
    \E sc \in Scenarios, k \in SinkStates :
        Start(sc, <<sc.text>>, k)

\* The increments are fixed when the stream starts; the sink is healthy.
InitScript ==
    \E sc \in ScriptScenarios :
        \E p \in Chunkings(sc.text, MaxChunks) : Start(sc, p, 0)

\* The next n characters of the stream arrive and are passed to parse_chunk.
ParseChunk(n) ==
    /\ ~closed
    /\ stream # <<>>
    /\ n \in 1..Len(Head(stream))
    /\ Becomes(parse_chunk(Self, SubSeq(Head(stream), 1, n)))
    /\ stream' = IF n = Len(Head(stream)) THEN Tail(stream)
                 ELSE <<SubSeq(Head(stream), n + 1, Len(Head(stream)))>> \o Tail(stream)
    /\ UNCHANGED <<flushes, closed, turn, conversations>>

\* The next increment arrives whole.
ParseIncrement ==
    /\ stream # <<>>
    /\ ParseChunk(Len(Head(stream)))

\* The caller flushes the parser (a tool invocation begins).  A flush of an
\* empty buffer sends nothing and changes no field, so it is left out.
Flush ==
    /\ ~closed
    /\ flushes < MaxFlush
    /\ buffer # <<>>
    /\ Becomes(flush(Self))
    /\ flushes' = flushes + 1
    /\ UNCHANGED <<stream, closed, turn, conversations>>

\* The caller finalizes the parser: the stream ended or was abandoned.
Finalize ==
    /\ ~closed
    /\ Becomes(finalize(Self))
    /\ closed' = TRUE
    /\ UNCHANGED <<stream, flushes, turn, conversations>>

\* The lengths of the increments that may arrive next: each ends with a token.
Increments ==
    LET ends == TokenEnds(Flatten(plan))
    IN  {k - Len(complete_response) : k \in {e \in ends : e > Len(complete_response)}}

\* Some increment of whole tokens arrives.
Receive == \E n \in Increments : ParseChunk(n)

Next ==
    \/ Receive
    \/ Flush
    \/ Finalize

NextScript ==
    \/ ParseIncrement
    \/ Finalize

Spec == Init /\ [][Next]_vars

SpecScript == InitScript /\ [][NextScript]_vars

\* ------------------------------------------------------ derived quantities

\* The whole text of the stream.
Text == Flatten(plan)

\* The events handed to the sink, in order, without the delivery bookkeeping.
Data(evs) == [k \in 1..Len(evs) |-> evs[k].data]

OfType(evs, types) == SelectSeq(Data(evs), LAMBDA d : d.type \in types)

TextChunks(evs) == OfType(evs, {"text_chunk"})

Structured(evs) == OfType(evs, {"product_search", "order"})

StreamEnds(evs) == OfType(evs, {"stream_end"})

\* The marker literals of the delimiter protocol.
Markers == {PRODUCTS_OPEN, ORDERS_OPEN} \cup PRODUCTS_CLOSERS \cup ORDERS_CLOSERS

Concat(seqs) == Flatten(seqs)

\* The text displayed so far: the payloads of the text_chunk events, joined.
Displayed(evs) == Concat([k \in 1..Len(TextChunks(evs)) |-> TextChunks(evs)[k].content])

\* The whole stream has been received.
Received == Len(complete_response) = Len(Text)

\* ------------------------------------------------------------------ claims

\* The stream was delivered as two increments cut inside a marker literal.
SplitInsideMarker ==
    /\ Len(plan) = 2
    /\ \E m \in Markers : \E i \in Occurrences(Text, m) :
           /\ i <= Len(plan[1])
           /\ Len(plan[1]) <= i + Len(m) - 2

\* The session that receives the same stream as one increment.
Unsplit ==
    finalize(parse_chunk(StreamParser(0, search_results, orders_list), Text))

\* C1 (as claimed): a stream fed as two increments cut inside a marker literal
\* ends, after finalize, with the same complete_response and the same
\* structured events as the stream fed as one increment.
C1_MarkerSplitInvariance ==
    (closed /\ stream = <<>> /\ SplitInsideMarker)
        => /\ complete_response = Unsplit.complete_response
           /\ Structured(events) = Structured(Unsplit.events)

\* s without its leading blank characters.
lstrip(s) ==
    LET keep == {i \in 1..Len(s) : ~IsSpace(s[i])}
    IN  IF keep = {} THEN <<>> ELSE SubSeq(s, Min(keep), Len(s))

\* C2 (as claimed): when a session of parse_chunk calls and finalize resolved a
\* section, no character before the section is lost: complete_response is the
\* displayed text, then the section's raw span (open marker to close marker),
\* then trailing text.  Blank text right before the open marker, which the
\* section step leaves out, is not counted as lost here.
C2_NoTextLost ==
    (closed /\ flushes = 0 /\ sections_found = 1)
        => LET shown == Displayed(events)
               rest == lstrip(SubSeq(complete_response, Len(shown) + 1,
                                     Len(complete_response)))
           IN  /\ shown = SubSeq(complete_response, 1, Len(shown))
               /\ \/ PRODUCTS_PATTERN(rest).found /\ PRODUCTS_PATTERN(rest).start = 1
                  \/ ORDERS_PATTERN(rest).found /\ ORDERS_PATTERN(rest).start = 1

\* C3: structured events are emitted for at most one section: at most one
\* section is ever resolved, no structured event exists before it, and
\* structured events are added only by the step that resolves it.
C3_AtMostOneSection ==
    /\ [](/\ sections_found <= 1
          /\ (sections_found = 0 => Structured(events) = <<>>))
    /\ [][Structured(events') # Structured(events)
            => sections_found = 0 /\ sections_found' = 1]_vars

\* C3 witness: a stream with two complete sections was received to its end and
\* one of them produced structured events.
C3_Witness ==
    /\ closed
    /\ Received
    /\ PRODUCTS_PATTERN(Text).found
    /\ ORDERS_PATTERN(Text).found
    /\ Structured(events) # <<>>

\* The events a step adds to the log.
NewEvents == SubSeq(events', Len(events) + 1, Len(events'))

TextChunk(text) == [type |-> "text_chunk", content |-> text]

StreamEnd == [type |-> "stream_end"]

\* A finalize step.
FinalizeStep == ~closed /\ closed'

ItemsPlan ==
    <<TxtItems,
      SubSeq(PRODUCTS_OPEN, 1, 6),
      SubSeq(PRODUCTS_OPEN, 7, 12) \o IdsP1P2 \o PRODUCTS_CLOSE>>

\* The end-to-end scenario has run to its end.
ItemsRun ==
    /\ closed
    /\ stream = <<>>
    /\ plan = ItemsPlan
    /\ search_results = SearchP1P2

ProductSearch(results) == [type |-> "product_search", results |-> results]

\* C5 (as claimed): the end-to-end scenario emits text_chunk("Here are your
\* items: "), one product_search with p1 and p2, stream_end, and nothing else.
C5_EndToEnd_AsClaimed ==
    ItemsRun =>
        Data(events) = <<TextChunk(TxtItems), ProductSearch(SearchP1P2), StreamEnd>>

\* C5 (amended): the end-to-end scenario emits the text "Here are your items: "
\* as three text_chunk events, "H", "ere ar" and "e your items: " (the safety
\* margin releases it piecewise), then one product_search with p1 and p2, then
\* stream_end, and nothing else.
C5_EndToEnd ==
    ItemsRun =>
        /\ Data(events) =
               <<TextChunk(SubSeq(TxtItems, 1, 1)),
                 TextChunk(SubSeq(TxtItems, 2, 7)),
                 TextChunk(SubSeq(TxtItems, 8, 21)),
                 ProductSearch(SearchP1P2),
                 StreamEnd>>
        /\ Displayed(events) = TxtItems

\* C5 witness: the scenario has run and its product_search event was emitted.
C5_Witness ==
    /\ ItemsRun
    /\ Len(Structured(events)) = 1

\* The elements of a finite set of integers in increasing order.
Sorted(S) ==
    [k \in 1..Cardinality(S) |->
        CHOOSE x \in S : Cardinality({y \in S : y < x}) = k - 1]

\* The identifiers an identifier string lists, in its order: the text between
\* consecutive commas (or an end of the string), blanks at both ends removed,
\* empty ones dropped, duplicates kept.
TokenSeq(raw) ==
    LET bounds == Sorted({0, Len(raw) + 1} \cup {i \in 1..Len(raw) : raw[i] = ","})
        pieces == [k \in 1..(Len(bounds) - 1) |->
                      strip(SubSeq(raw, bounds[k] + 1, bounds[k + 1] - 1))]
    IN  SelectSeq(pieces, LAMBDA t : t # <<>>)

TokenSet(raw) ==
    LET tokens == TokenSeq(raw)
    IN  {tokens[k] : k \in 1..Len(tokens)}

\* The increment a parse_chunk step receives and the buffer it then searches.
Incoming ==
    SubSeq(complete_response', Len(complete_response) + 1, Len(complete_response'))

Scanned == buffer \o Incoming

\* A step that resolves a section: Products when the buffer holds a complete
\* Products section, Orders otherwise.
ResolveStep == sections_found = 0 /\ sections_found' = 1

ProductsStep == ResolveStep /\ PRODUCTS_PATTERN(Scanned).found

OrdersStep == ResolveStep /\ ~PRODUCTS_PATTERN(Scanned).found

\* The entries of a log whose events are structured.
StructuredEntries(evs) ==
    SelectSeq(evs, LAMBDA e : e.data.type \in {"product_search", "order"})

\* The search results whose id the identifier string lists, in the order of
\* the search results.
ListedProducts(raw, sr) ==
    LET ids == TokenSet(raw)
    IN  SelectSeq(sr, LAMBDA hit : hit._source.id \in ids)

\* C6: resolving a Products section emits exactly one product_search event
\* whose payload is the search results with a listed id, in the order of the
\* search results, and no structured event when no search result is listed.
C6_ProductsBatch ==
    [][ProductsStep =>
          LET listed == ListedProducts(PRODUCTS_PATTERN(Scanned).group, search_results)
          IN  Data(StructuredEntries(NewEvents)) =
                  (IF listed = <<>> THEN <<>> ELSE <<ProductSearch(listed)>>)]_vars

\* C6 witness: with search results p1, p2, p3 and the list "p3, p1" the batch
\* p1, p3 was emitted.
C6_Witness ==
    /\ sections_found = 1
    /\ search_results = SearchP1P2P3
    /\ Contains(complete_response, IdsP3P1)
    /\ Structured(events) = <<ProductSearch(<<SearchP1P2P3[1], SearchP1P2P3[3]>>)>>

\* The order event of an order record: three of its fields.
OrderEvent(order) ==
    [type |-> "order",
     content |-> [order_id |-> order.order_id, order_date |-> order.timestamp,
                  status |-> order.delivery_status]]

\* One order event per listed identifier that some order carries, in the
\* list's order, each for the first such order.
ListedOrders(raw, ol) ==
    LET known == SelectSeq(TokenSeq(raw),
                           LAMBDA t : \E j \in 1..Len(ol) : ol[j].order_id = t)
        first(t) == CHOOSE j \in 1..Len(ol) :
                        /\ ol[j].order_id = t
                        /\ \A i \in 1..(j - 1) : ol[i].order_id # t
    IN  [k \in 1..Len(known) |-> OrderEvent(ol[first(known[k])])]

C8_NoTextAfterSection ==
    [][content_sent => TextChunks(events') = TextChunks(events)]_vars

\* The positions of text that lie in a marker literal, or between an open
\* marker and the first close marker of its kind after it.
Protected(text) ==
    LET inMarker(m) == UNION {i..(i + Len(m) - 1) : i \in Occurrences(text, m)}
        closeAfter(i, closers) ==
            {j \in i..Len(text) : \E c \in closers : OccursAt(text, c, j)}
        listAt(i, closers) ==
            IF closeAfter(i, closers) = {} THEN {}
            ELSE i..(Min(closeAfter(i, closers)) - 1)
        listOf(open, closers) ==
            UNION {listAt(i + Len(open), closers) : i \in Occurrences(text, open)}
    IN  UNION {inMarker(m) : m \in Markers}
            \cup listOf(PRODUCTS_OPEN, PRODUCTS_CLOSERS)
            \cup listOf(ORDERS_OPEN, ORDERS_CLOSERS)

\* Every text_chunk a step emits is the text at the head of the buffer, and
\* none of its characters is protected.
NoLeakStep ==
    LET base == Len(complete_response) - Len(buffer)
    IN  \A k \in 1..Len(NewEvents) :
            NewEvents[k].data.type = "text_chunk" =>
                LET t == NewEvents[k].data.content
                    protected == Protected(Text)
                IN  /\ t = SubSeq(Text, base + 1, base + Len(t))
                    /\ \A p \in (base + 1)..(base + Len(t)) : p \notin protected

\* A step of a session of parse_chunk calls that finalize ends once the whole
\* stream was received.
PlainSessionStep == flushes' = 0 /\ (FinalizeStep => Received)

\* C9 (as claimed): in a session of parse_chunk calls followed by finalize no
\* text_chunk holds a character of a marker literal of the stream or of the
\* identifier list between an open marker and its close marker.
C9_NoMarkerInText_AsClaimed ==
    [][PlainSessionStep => NoLeakStep]_vars

\* The stream holds exactly one section and no other marker literal: one open
\* marker, and one close marker of its kind after it.
OneSectionStream(text) ==
    LET hits == {<<m, i>> \in Markers \X (1..Len(text)) : OccursAt(text, m, i)}
    IN  /\ Cardinality(hits) = 2
        /\ \/ /\ PRODUCTS_PATTERN(text).found
              /\ \E h \in hits : h[1] \in PRODUCTS_CLOSERS
           \/ /\ ORDERS_PATTERN(text).found
              /\ \E h \in hits : h[1] \in ORDERS_CLOSERS

\* C9 (amended): the same, for a stream that holds exactly one section and no
\* other marker literal.
C9_NoMarkerInText ==
    [][(PlainSessionStep /\ OneSectionStream(Text)) => NoLeakStep]_vars

\* C9 witness: a one-section stream was received to its end in several
\* increments, text was displayed before the section and the section resolved.
C9_Witness ==
    /\ closed
    /\ Received
    /\ flushes = 0
    /\ OneSectionStream(Text)
    /\ sections_found = 1
    /\ Len(TextChunks(events)) >= 2

\* C10: no call of parse_chunk, flush or finalize lets an exception out,
\* whatever the sink does.
C10_NeverRaises == ~raised

\* C10 witness: a session ended on a sink that lost a text_chunk and the
\* stream_end for good.
C10_Witness ==
    /\ closed
    /\ sink = Gone
    /\ \E k \in 1..Len(events) : events[k].data.type = "text_chunk" /\ ~events[k].ok
    /\ ~events[Len(events)].ok

\* A flush step.
FlushStep == flushes' = flushes + 1

\* What a flush leaves alone: the buffer ends empty, content_sent and
\* complete_response keep their values, the session stays open.
FlushFrame ==
    /\ buffer' = <<>>
    /\ content_sent' = content_sent
    /\ complete_response' = complete_response
    /\ sections_found' = sections_found
    /\ ~closed'

\* C11 (as claimed): flush emits the whole buffer as one text_chunk and
\* nothing else, empties the buffer, leaves content_sent and complete_response
\* unchanged and leaves the session open.
C11_FlushEmitsBuffer_AsClaimed ==
    [][FlushStep => (Data(NewEvents) = <<TextChunk(buffer)>> /\ FlushFrame)]_vars

\* What flush does do: the same, except that a buffer of blank characters only
\* is dropped, flush then emitting nothing.
FlushEmitsNonBlankBuffer ==
    [][FlushStep =>
          /\ Data(NewEvents) =
                 (IF strip(buffer) # <<>> THEN <<TextChunk(buffer)>> ELSE <<>>)
          /\ FlushFrame]_vars

\* A flush emitted the text parse_chunk was still withholding, and a later
\* parse_chunk call resolved the section of the stream.
FlushThenSection ==
    /\ flushes = 1
    /\ ~closed
    /\ sections_found = 1
    /\ Len(events) = 2
    /\ events[1].data = TextChunk(TxtPicks)
    /\ events[2].data.type = "product_search"

\* A parse_chunk call that searches a buffer holding both a complete Products
\* section and a complete Orders section.
BothSectionsStep ==
    /\ Incoming # <<>>
    /\ ~content_sent
    /\ PRODUCTS_PATTERN(Scanned).found
    /\ ORDERS_PATTERN(Scanned).found

\* C18: a parse_chunk call that finds both a complete Products section and a
\* complete Orders section resolves the Products section only, wherever the two
\* lie in the text: its structured events are the product batch, no order event,
\* and content_sent is set; once content_sent is set no step adds a structured
\* event, so the Orders section never produces an order event.
C18_ProductsPrecedence ==
    /\ [][BothSectionsStep =>
            /\ Data(StructuredEntries(NewEvents)) =
                   (LET listed == ListedProducts(PRODUCTS_PATTERN(Scanned).group,
                                                 search_results)
                    IN  IF listed = <<>> THEN <<>> ELSE <<ProductSearch(listed)>>)
            /\ content_sent'
            /\ sections_found' = 1]_vars
    /\ [][content_sent => Structured(events') = Structured(events)]_vars

\* C18 witness: the stream with the Orders section ahead of the Products
\* section arrived whole in one call, which emitted the product batch; the
\* session ended without an order event.
C18_Witness ==
    /\ closed
    /\ Text = BothScenario.text
    /\ Structured(events) = <<ProductSearch(<<SearchP1P2P3[1]>>)>>

\* A parse_chunk call that searches a buffer holding neither a complete section
\* nor an open marker.
PlainTextStep ==
    /\ Incoming # <<>>
    /\ ~content_sent
    /\ ~PRODUCTS_PATTERN(Scanned).found
    /\ ~ORDERS_PATTERN(Scanned).found
    /\ ~Contains(Scanned, PRODUCTS_OPEN)
    /\ ~Contains(Scanned, ORDERS_OPEN)

\* C19 (as claimed): a parse_chunk call that finds neither a complete section
\* nor an open marker withholds the last SafeMargin characters of the buffer
\* and emits only the text before them, nothing when the buffer is no longer
\* than the margin; the buffer is then its last min(length, SafeMargin)
\* characters.  Blank text before the margin, which is cut from the buffer
\* without being sent, is not counted against the claim here.
C19_SafetyMargin ==
    [][PlainTextStep =>
          LET kept == Min({Len(Scanned), SafeMargin})
              safe_text == SubSeq(Scanned, 1, Len(Scanned) - kept)
          IN  /\ buffer' = SubSeq(Scanned, Len(Scanned) - kept + 1, Len(Scanned))
              /\ Data(NewEvents) =
                     (IF strip(safe_text) # <<>> THEN <<TextChunk(safe_text)>> ELSE <<>>)]_vars

\* The margin is observed whenever the buffer also holds none of the close
\* markers _has_partial_markers looks for.
MarginWithoutCloseMarker ==
    [][(PlainTextStep /\ ~_has_partial_markers([buffer |-> Scanned])) =>
          LET kept == Min({Len(Scanned), SafeMargin})
              safe_text == SubSeq(Scanned, 1, Len(Scanned) - kept)
          IN  /\ buffer' = SubSeq(Scanned, Len(Scanned) - kept + 1, Len(Scanned))
              /\ Data(NewEvents) =
                     (IF strip(safe_text) # <<>> THEN <<TextChunk(safe_text)>> ELSE <<>>)]_vars

\* A step that resolves a section whose identifier list names no record: the
\* list is empty, no identifier has a record, or the collection is empty.
EmptySectionStep ==
    \/ /\ ProductsStep
       /\ ListedProducts(PRODUCTS_PATTERN(Scanned).group, search_results) = <<>>
    \/ /\ OrdersStep
       /\ ListedOrders(ORDERS_PATTERN(Scanned).group, orders_list) = <<>>

\* Such a step emits no structured event, sets content_sent and clears the
\* buffer.
EmptySectionMarked ==
    EmptySectionStep =>
        /\ StructuredEntries(NewEvents) = <<>>
        /\ content_sent'
        /\ buffer' = <<>>

\* A section was resolved without a structured event.
EmptySectionSent == content_sent /\ Structured(events) = <<>>

\* C20 (as claimed): a complete section whose identifier list names no record
\* emits no structured event, sets content_sent and clears the buffer, and no
\* later step displays text.
C20_EmptySectionSuppresses ==
    /\ [][EmptySectionMarked]_vars
    /\ [][EmptySectionSent => TextChunks(events') = TextChunks(events)]_vars

\* The marking holds, and so does the suppression for every later parse_chunk
\* and finalize call.
EmptySectionSuppressesParsed ==
    /\ [][EmptySectionMarked]_vars
    /\ [][(EmptySectionSent /\ ~FlushStep) =>
              TextChunks(events') = TextChunks(events)]_vars

\* A stream whose section holds an empty list was received to its end, text
\* after the section included, and nothing of it was displayed.
EmptyListSuppressed ==
    /\ closed
    /\ Received
    /\ Contains(Text, IdsNone \o ORDERS_CLOSE)
    /\ content_sent
    /\ events = <<[data |-> StreamEnd, posts |-> 1, ok |-> TRUE]>>

\* ====================================================== the user turn
\* message_refactored.handler and the handlers it dispatches to.  The events
\* log and the sink are the ones of the parser: every event of a turn goes to
\* the same connection.

\* Bound: the toolUse blocks a product-search reply may hold.
MaxToolUses == 2

\* The texts a failing call raises with.
ExceptionTexts == {"ThrottlingException: rate exceeded for table AgentConversations"}

\* What the classification call gives: the text of the reply, or it raises.
ClassifierRaises == "raises"

ClassifierReplies == {"1", "2", "3", "4", "5", "6", "Assistant 2"}

ClassifierOutcomes == ClassifierReplies \cup {ClassifierRaises}

RoutingCodes == {"1", "2", "3", "4", "5"}

\* The messages of the events, as the parts they are formatted from.
WaitOrders == <<"Getting order history...">>

WaitSearch == <<"Searching for products...">>

WaitCompare == <<"Searching for products to compare...">>

WaitAgent == <<"AI agent (", "general", ") is processing your request...">>

ErrOrders == <<"Sorry, I encountered an error: ", "retrieving your order history">>

ErrSearch == <<"Sorry, I encountered an error: ", "searching for products">>

ErrRequest == <<"Sorry, I encountered an error: ", "processing your request">>

ErrDispatch == <<"Sorry, there was an error processing your request. Please try again.">>

ErrAgentMode ==
    <<"Sorry, there was an error processing your request with the AI agent. Please try again.">>

ErrAgentStream ==
    <<"Sorry, I encountered an error while ", "processing your request with the AI agent",
      ". Please try again.">>

Wait(message) == [type |-> "wait", message |-> message]

Error(message) == [type |-> "error", message |-> message]

\* BaseMessageHandler.send_to_connection: the connection is validated, then
\* posted to once; a failure is logged and answered with False.
send_to_connection(self, data) ==
    IF self.sink = Gone
    THEN [self EXCEPT !.events = Append(@, [data |-> data, posts |-> 0, ok |-> FALSE])]
    ELSE [self EXCEPT
            !.events = Append(@, [data |-> data, posts |-> 1, ok |-> self.sink = 0]),
            !.sink = IF @ > 0 THEN @ - 1 ELSE 0]

send_wait_message(self, message) == send_to_connection(self, Wait(message))

send_error_message_twice(self, error) ==
    send_to_connection(send_to_connection(self, Error(error)), Error(error))

send_error_message(self, error) == send_to_connection(self, Error(error))

\* apigw_management.post_to_connection inside try/except: one post, no
\* validation, the failure swallowed.
post_to_connection(self, data) ==
    [self EXCEPT
        !.events = Append(@, [data |-> data, posts |-> 1, ok |-> self.sink = 0]),
        !.sink = IF @ > 0 THEN @ - 1 ELSE @]

_send_status_message(self, message) == post_to_connection(self, Wait(message))

\* StrandsShoppingAgent._send_error_message formats its argument into the
\* message.
_send_error_message(self, error_context) ==
    post_to_connection(self, Error(<<"Sorry, I encountered an error while ">>
                                   \o error_context \o <<". Please try again.">>))

route_message_no_fallback(use_agent, outcome) ==
    [code |-> outcome, calls |-> 1]

\* RouterHandler.route_message: one converse call; its reply text is returned
\* as it is, and any exception gives the fallback code.
route_message(use_agent, outcome) ==
    [code |-> IF outcome = ClassifierRaises
              THEN (IF use_agent THEN "3" ELSE "4")
              ELSE outcome,
     calls |-> 1]

\* _handle_standard_mode: the handler the if/elif chain constructs, "none"
\* when no branch matches.
_handle_standard_mode(assistant_number) ==
    CASE assistant_number = "1" -> "order_history"
      [] assistant_number = "2" -> "product_search"
      [] assistant_number = "3" -> "product_details"
      [] assistant_number = "4" -> "general_inquiry"
      [] assistant_number = "5" -> "compare_products"
      [] OTHER -> "none"

\* The replies of the generator to each handler, with the reference
\* collections the handler creates its parser with.
ReplyPlain == Scenario(TxtBye, <<>>, <<>>)

ReplyOrders == Scenario(ORDERS_OPEN \o IdsA \o ORDERS_CLOSE, <<>>, OrdersAB)

ReplyProducts == Scenario(PRODUCTS_OPEN \o IdsP1 \o PRODUCTS_CLOSE, SearchP1P2, <<>>)

ReplyAgent == Scenario(TxtBye, <<>>, OrdersAB)

ReplyAgentOrders ==
    Scenario(ORDERS_OPEN \o IdsA \o ORDERS_CLOSE \o TxtBye, <<>>, OrdersAB)

\* What a tool of the agent returns: search hits or orders.
AgentToolResults == {SearchP1P2, OrdersAB}

Replies(t) ==
    CASE t.handler = "order_history" -> {ReplyOrders}
      [] t.handler = "product_search" -> {ReplyProducts}
      [] t.handler = "compare_products" ->
            IF t.tool_uses = 0 THEN {ReplyPlain} ELSE {ReplyProducts}
      [] t.handler = "agent" -> {ReplyAgent, ReplyAgentOrders}
      [] OTHER -> {ReplyPlain}

\* The connection and the events so far, as the object the send operators
\* work on.
Conn == Self

\* The user message of the turn.
UserMessage == <<"compare the mug and the lamp">>

\* The record of the routing decision that handler() saves.
RoutingDecision(assistant_number) ==
    <<"Routed to ",
      CASE assistant_number = "1" -> "Order History Handler"
        [] assistant_number = "2" -> "Product Search Handler"
        [] assistant_number = "3" -> "Product Details Handler"
        [] assistant_number = "4" -> "General Inquiry Handler"
        [] assistant_number = "5" -> "Compare Products Handler"
        [] OTHER -> "Handler " \o assistant_number,
      " (#", assistant_number, ")">>

\* The record of a tool result that handler h saves.
ToolResultMessage(h) ==
    <<IF h = "compare_products" THEN "Tool result for comparison search: "
      ELSE "Tool result for search: ",
      "mug lamp">>

\* handler_type of the handler object: CompareProductsHandler and
\* RouterHandler do not set one and keep that of BaseMessageHandler.
handler_type(h) ==
    IF h \in {"order_history", "product_search", "general_inquiry", "product_details"}
    THEN h ELSE "base"

\* Whether the conversations table answers the writes of the turn: the
\* handlers' saves reach it, or fail and are swallowed, for the whole turn.
StoreUp == turn.store = "up"

\* A step of the turn outside the parser: q holds the events and the sink
\* after the step's sends, t the turn, table the conversations.
Stored(q, t, table) ==
    /\ Becomes(q)
    /\ turn' = t
    /\ conversations' = table
    /\ UNCHANGED <<stream, flushes, closed>>

\* Such a step that writes no conversation.
Proceed(q, t) == Stored(q, t, conversations)

\* A handler creates a parser for the reply sc and opens its stream.
OpenStream(q, t, sc) ==
    LET p == StreamParser(q.sink, sc.search_results, sc.orders_list)
    IN  /\ buffer' = p.buffer
        /\ complete_response' = p.complete_response
        /\ content_sent' = p.content_sent
        /\ sections_found' = p.sections_found
        /\ search_results' = p.search_results
        /\ orders_list' = p.orders_list
        /\ events' = q.events
        /\ sink' = q.sink
        /\ raised' = raised
        /\ plan' = <<sc.text>>
        /\ stream' = <<sc.text>>
        /\ flushes' = 0
        /\ closed' = FALSE
        /\ turn' = [t EXCEPT !.sessions = @ + 1]
        /\ UNCHANGED <<conversations, writers>>

Returned(t, status) == [t EXCEPT !.pc = "returned", !.status = status]

Failed(t, stage) == [Returned(t, 200) EXCEPT !.failure = stage]

\* The error message of the handler's except clause.
ErrorOf(h) ==
    CASE h = "order_history" -> ErrOrders
      [] h = "product_search" -> ErrSearch
      [] OTHER -> ErrRequest

\* The except clause of the handler that is running: one error event, and the
\* handler returns.  In agent mode this is the clause of
\* _stream_agent_response.
Fail(stage) ==
    IF turn.handler = "agent"
    THEN Proceed(_send_error_message(Conn, <<"processing your request with the AI agent">>),
                 Failed(turn, stage))
    ELSE Proceed(send_error_message(Conn, ErrorOf(turn.handler)), Failed(turn, stage))

\* A turn begins: a message arrives on a connection, in either mode.
InitTurn ==
    \E use_agent \in BOOLEAN, k \in SinkStates, store \in {"up", "down"} :
        LET p == StreamParser(k, <<>>, <<>>)
        IN  /\ buffer = p.buffer
            /\ complete_response = p.complete_response
            /\ content_sent = p.content_sent
            /\ sections_found = p.sections_found
            /\ search_results = p.search_results
            /\ orders_list = p.orders_list
            /\ events = p.events
            /\ sink = p.sink
            /\ raised = FALSE
            /\ plan = <<>>
            /\ stream = <<>>
            /\ flushes = 0
            /\ closed = FALSE
            /\ turn = [TurnAt("request", use_agent) EXCEPT !.store = store]
            /\ conversations = NoConversations
            /\ writers = <<>>

\* handler(): the connection is validated; the agent branch fixes the
\* routing code, the standard branch goes on to the router.
Handler ==
    /\ turn.pc = "request"
    /\ IF sink = Gone
       THEN Proceed(Conn, Returned(turn, 410))
       ELSE IF turn.use_agent
            THEN Proceed(Conn, [turn EXCEPT !.pc = "dispatch", !.assistant_number = "4"])
            ELSE Stored(Conn, [turn EXCEPT !.pc = "route"],
                        save_message_to_handler(
                            conversations, StoreUp, handler_type("router"),
                            Message("user", UserMessage, "router")))

\* router.route_message(...) in handler(): the classifier answers or raises,
\* and the routing decision is saved.
Route ==
    /\ turn.pc = "route"
    /\ \E outcome \in ClassifierOutcomes :
        LET r == route_message(turn.use_agent, outcome)
        IN  Stored(Conn, [turn EXCEPT !.pc = "dispatch",
                                      !.classifier = outcome,
                                      !.classifier_calls = @ + r.calls,
                                      !.assistant_number = r.code],
                   save_message_to_handler(
                       conversations, StoreUp, handler_type("router"),
                       Message("system", RoutingDecision(r.code), "router")))

\* _dispatch_to_handler: the handler of the mode is constructed, which may
\* raise; an exception is answered with one error event posted directly.
Dispatch ==
    /\ turn.pc = "dispatch"
    /\ IF turn.use_agent
       THEN \/ Proceed(Conn, [turn EXCEPT !.pc = "handle", !.handler = "agent"])
            \/ Proceed(post_to_connection(Conn, Error(ErrAgentMode)),
                       Failed(turn, "construct"))
       ELSE LET h == _handle_standard_mode(turn.assistant_number)
            IN  IF h = "none"
                THEN Proceed(Conn, Returned(turn, 200))
                ELSE \/ Proceed(Conn, [turn EXCEPT !.pc = "handle", !.handler = h])
                     \/ Proceed(post_to_connection(Conn, Error(ErrDispatch)),
                                Failed(turn, "construct"))

\* self.save_message_to_handler('user', self.user_message) of a handler.
UserMessageSaved ==
    save_message_to_handler(conversations, StoreUp, handler_type(turn.handler),
                            Message("user", UserMessage, turn.handler))

\* messages = self.build_conversation_history(): the generation input of the
\* turn, and the stored records it was loaded from.
HistoryBuilt(table) ==
    [turn EXCEPT
        !.input = build_conversation_history(table, handler_type(turn.handler), UserMessage),
        !.loaded = LastN(table[handler_type(turn.handler)], HistoryLimit)]

\* The first statements of handle() and of handle_request(): the wait
\* message, if the handler sends one, the user message saved and the history
\* built, and the stage that follows.  In agent
\* mode the agent is created and the conversation loaded first; an exception
\* there is answered by handle_request's except clause.
Handle ==
    /\ turn.pc = "handle"
    /\ CASE turn.handler = "order_history" ->
                Stored(send_wait_message(Conn, WaitOrders),
                       [HistoryBuilt(UserMessageSaved) EXCEPT !.pc = "tool"],
                       UserMessageSaved)
         [] turn.handler = "product_search" ->
                Stored(send_wait_message(Conn, WaitSearch),
                       [HistoryBuilt(UserMessageSaved) EXCEPT !.pc = "converse"],
                       UserMessageSaved)
         [] turn.handler = "product_details" ->
                Stored(Conn, [HistoryBuilt(UserMessageSaved) EXCEPT !.pc = "tool"],
                       UserMessageSaved)
         [] turn.handler = "general_inquiry" ->
                Stored(Conn, [HistoryBuilt(UserMessageSaved) EXCEPT !.pc = "generate"],
                       UserMessageSaved)
         [] turn.handler = "agent" ->
                \/ Proceed(_send_status_message(Conn, WaitAgent),
                           [turn EXCEPT !.pc = "generate"])
                \/ \E e \in ExceptionTexts :
                     Proceed(_send_error_message(Conn, <<"Agent processing failed: ", e>>),
                             Failed(turn, "setup"))
         [] OTHER ->
                Proceed(Conn, [HistoryBuilt(conversations) EXCEPT !.pc = "generate"])

\* ProductSearchHandler.handle: the converse call whose reply holds the
\* toolUse blocks; _handle_tool_response returns at once when it holds none.
Converse ==
    /\ turn.pc = "converse"
    /\ \/ \E k \in 0..MaxToolUses :
            Proceed(Conn, IF k = 0 THEN Returned([turn EXCEPT !.generations = @ + 1], 200)
                          ELSE [turn EXCEPT !.pc = "tool", !.tool_uses = k, !.calls = k,
                                            !.generations = @ + 1])
       \/ Fail("generate")

\* A tool or a lookup runs before the reply is generated; it is the
\* execution of a tool call when the generator asked for it.
ExecuteTool ==
    /\ turn.pc = "tool"
    /\ \/ IF turn.tool_uses > 0
          THEN Stored(Conn, [turn EXCEPT !.pc = "generate", !.executions = @ + 1],
                      save_message_to_handler(
                          conversations, StoreUp, handler_type(turn.handler),
                          Message("user", ToolResultMessage(turn.handler), turn.handler)))
          ELSE Proceed(Conn, [turn EXCEPT !.pc = "generate"])
       \/ Fail("tool")

\* converse_stream (stream_async in agent mode): the handler creates its
\* parser and the stream opens, or the call raises.
ConverseStream ==
    /\ turn.pc = "generate"
    /\ \/ \E sc \in Replies(turn) :
            OpenStream(Conn, [turn EXCEPT !.pc = "streaming", !.generations = @ + 1], sc)
       \/ Fail("generate")

\* The agent is running a tool: its stream is waiting for the result.
ToolPending == turn.handler = "agent" /\ turn.tool_uses > 0

\* A text increment of the stream is passed to parse_chunk.
StreamText ==
    /\ turn.pc = "streaming"
    /\ ~ToolPending
    /\ Receive

StreamToolUse_honoured_in_continuation ==
    /\ turn.pc = "streaming"
    /\ turn.handler = "compare_products"
    /\ turn.calls < MaxToolUses
    /\ Proceed(send_wait_message(Conn, WaitCompare),
               [turn EXCEPT !.pc = "tool", !.tool_uses = 1, !.tools = @ + 1,
                            !.calls = @ + 1])

\* The stream announces a tool call.  CompareProductsHandler sends a wait
\* message, leaves its parser as it is and goes on to run the tool; the agent
\* flushes its parser and its stream goes on.  The loop that reads a
\* continuation, and the one of ProductSearchHandler, look at text deltas
\* only: a tool call announced there is passed over.
StreamToolUse ==
    /\ turn.pc = "streaming"
    /\ \/ /\ turn.handler = "compare_products"
          /\ turn.tool_uses = 0
          /\ Proceed(send_wait_message(Conn, WaitCompare),
                     [turn EXCEPT !.pc = "tool", !.tool_uses = 1, !.tools = @ + 1,
                                  !.calls = @ + 1])
       \/ /\ \/ turn.handler = "compare_products" /\ turn.tool_uses > 0
             \/ turn.handler = "product_search"
          /\ turn.ignored < MaxToolUses
          /\ Proceed(Conn, [turn EXCEPT !.ignored = @ + 1])
       \/ /\ turn.handler = "agent"
          /\ ~ToolPending
          /\ flushes < MaxFlush
          /\ Becomes(flush(Self))
          /\ flushes' = flushes + 1
          /\ turn' = [turn EXCEPT !.tool_uses = 1, !.tools = @ + 1]
          /\ UNCHANGED <<stream, closed, conversations>>

\* _update_stream_parser_with_results: search hits extend the parser's
\* search_results, orders its orders_list.
_update_stream_parser_with_results(self, results) ==
    IF results # <<>> /\ "_source" \in DOMAIN results[1]
    THEN [self EXCEPT !.search_results = @ \o results]
    ELSE IF results # <<>> /\ "order_id" \in DOMAIN results[1]
         THEN [self EXCEPT !.orders_list = @ \o results]
         ELSE self

\* The agent's tool has run: its result arrives in the stream and is added to
\* the parser that is reading the stream.
ToolResult ==
    /\ turn.pc = "streaming"
    /\ ToolPending
    /\ \E results \in AgentToolResults :
          LET q == _update_stream_parser_with_results(Self, results)
          IN  /\ search_results' = q.search_results
              /\ orders_list' = q.orders_list
    /\ turn' = [turn EXCEPT !.tool_uses = 0]
    /\ UNCHANGED <<buffer, complete_response, content_sent, sections_found, events,
                   sink, raised, plan, stream, flushes, closed, conversations, writers>>

\* The stream raises before its end.
StreamFails ==
    /\ turn.pc = "streaming"
    /\ Fail("streaming")

\* The stream ends: the handler finalizes its parser.
EndOfStream ==
    /\ turn.pc = "streaming"
    /\ ~ToolPending
    /\ stream = <<>>
    /\ Becomes(finalize(Self))
    /\ closed' = TRUE
    /\ turn' = [turn EXCEPT !.pc = "persist"]
    /\ UNCHANGED <<stream, flushes, conversations>>

Save_unless_connection_lost ==
    /\ turn.pc = "persist"
    /\ LET after == IF turn.handler = "product_search" /\ turn.tool_uses > 1
                    THEN [turn EXCEPT !.pc = "tool", !.tool_uses = @ - 1]
                    ELSE Returned(turn, 200)
           given == IF sink = Gone THEN after
                    ELSE [after EXCEPT !.handed = Append(@, complete_response)]
       IN  \/ Proceed(Conn, [given EXCEPT !.persisted = IF sink = Gone THEN @ ELSE @ + 1])
           \/ Proceed(Conn, [given EXCEPT !.failure = "persist"])

\* The response is saved: the handler hands the parser's complete_response
\* to the conversation store.  save_message_to_handler swallows a failure;
\* save_agent_messages raises it again, into the except clause of
\* _stream_agent_response.  ProductSearchHandler then goes on to its next
\* toolUse block.
Save ==
    /\ turn.pc = "persist"
    /\ LET after == IF turn.handler = "product_search" /\ turn.tool_uses > 1
                    THEN [turn EXCEPT !.pc = "tool", !.tool_uses = @ - 1]
                    ELSE Returned(turn, 200)
           given == [after EXCEPT !.handed = Append(@, complete_response)]
       IN  \/ /\ turn.handler = "agent" \/ StoreUp
              /\ Stored(Conn, [given EXCEPT !.persisted = @ + 1],
                        IF turn.handler = "agent" THEN conversations
                        ELSE add_message_to_handler(
                                 conversations, handler_type(turn.handler),
                                 Message("assistant", complete_response, turn.handler)))
           \/ IF turn.handler = "agent"
              THEN Proceed(_send_error_message(
                               Conn, <<"processing your request with the AI agent">>),
                           Failed([turn EXCEPT !.handed = Append(@, complete_response)],
                                  "persist"))
              ELSE Proceed(Conn, [given EXCEPT !.failure = "persist"])

\* The client goes away while the turn runs.
Disconnect ==
    /\ turn.pc \notin {"request", "returned"}
    /\ sink # Gone
    /\ sink' = Gone
    /\ turn' = [turn EXCEPT !.lost = IF @ = "none" THEN turn.pc ELSE @]
    /\ UNCHANGED <<buffer, complete_response, content_sent, sections_found,
                   search_results, orders_list, events, raised, plan, stream,
                   flushes, closed, conversations, writers>>

NextTurn ==
    \/ Handler
    \/ Route
    \/ Dispatch
    \/ Handle
    \/ Converse
    \/ ExecuteTool
    \/ ConverseStream
    \/ StreamText
    \/ StreamToolUse
    \/ ToolResult
    \/ StreamFails
    \/ EndOfStream
    \/ Save
    \/ Disconnect

SpecTurn == InitTurn /\ [][NextTurn]_vars

\* ------------------------------------------- concurrent writes to the store

\* Two calls of add_message_to_handler run at the same time, in two
\* invocations that serve the same session.
Callers == {1, 2}

\* The messages stored before the calls start: n earlier messages.
Earlier(n) == [k \in 1..n |-> Message("user", <<"earlier", k>>, "earlier")]

\* The message that call w appends.
NewMessage(w) == Message("user", <<"new", w>>, "call")

\* A call of add_message_to_handler that has not reached the table yet.
Call(h, w) ==
    [pc |-> "append", handler_type |-> h, message |-> NewMessage(w),
     messages |-> <<>>, appended |-> FALSE]

\* Both calls are about to start on the conversation of some handler, which
\* holds up to TrimAbove messages, as add_message_to_handler leaves it.
InitStore ==
    \E h \in HandlerTypes, n \in 0..TrimAbove :
        /\ buffer = <<>>
        /\ complete_response = <<>>
        /\ content_sent = FALSE
        /\ sections_found = 0
        /\ search_results = <<>>
        /\ orders_list = <<>>
        /\ events = <<>>
        /\ sink = 0
        /\ raised = FALSE
        /\ plan = <<>>
        /\ stream = <<>>
        /\ flushes = 0
        /\ closed = FALSE
        /\ turn = NoTurn
        /\ conversations = [NoConversations EXCEPT ![h] = Earlier(n)]
        /\ writers = [w \in Callers |-> Call(h, w)]

\* No turn runs and no parser works while the calls write.
OnlyTheStore ==
    UNCHANGED <<buffer, complete_response, content_sent, sections_found,
                search_results, orders_list, events, sink, raised, plan,
                stream, flushes, closed, turn>>

\* The first update_item of call w: list_append on the stored list, atomic in
\* the table; ReturnValues = 'ALL_NEW' gives the call the list as it is then.
AppendMessage(w) ==
    /\ writers[w].pc = "append"
    /\ LET h == writers[w].handler_type
           messages == Append(conversations[h], writers[w].message)
       IN  /\ conversations' = [conversations EXCEPT ![h] = messages]
           /\ writers' = [writers EXCEPT ![w].messages = messages,
                                         ![w].appended = TRUE,
                                         ![w].pc = IF Len(messages) > TrimAbove
                                                   THEN "trim" ELSE "done"]
    /\ OnlyTheStore

\* The second update_item of call w: SET messages to the last TrimTo of the
\* list that the first one returned.
TrimMessages(w) ==
    /\ writers[w].pc = "trim"
    /\ conversations' = [conversations EXCEPT
                            ![writers[w].handler_type] = LastN(writers[w].messages, TrimTo)]
    /\ writers' = [writers EXCEPT ![w].pc = "done"]
    /\ OnlyTheStore

\* An update_item of call w raises: the except clause logs it and the call
\* returns.
UpdateFails(w) ==
    /\ writers[w].pc \in {"append", "trim"}
    /\ writers' = [writers EXCEPT ![w].pc = "done"]
    /\ UNCHANGED conversations
    /\ OnlyTheStore

AppendStep == \E w \in Callers : AppendMessage(w)

TrimStep == \E w \in Callers : TrimMessages(w)

FailedUpdateStep == \E w \in Callers : UpdateFails(w)

NextStore ==
    \/ AppendStep
    \/ TrimStep
    \/ FailedUpdateStep

SpecStore == InitStore /\ [][NextStore]_vars

\* ------------------------------------------------------ claims on the turn

\* The error events handed to the sink.
Errors(evs) == OfType(evs, {"error"})

\* The step in which handler() calls route_message.
RouteStep == turn.pc = "route" /\ turn'.pc = "dispatch"

\* C13: when the classification call fails, route_message returns the fixed
\* fallback code ("4" in standard mode, "3" in agent mode) instead of raising,
\* and the classifier is called once: the turn goes on to dispatch with that
\* code, nothing is sent and no exception leaves the router.
C13_RouteFallback ==
    /\ [][RouteStep /\ turn'.classifier = ClassifierRaises =>
            /\ turn'.assistant_number = (IF turn.use_agent THEN "3" ELSE "4")
            /\ turn'.classifier_calls = 1
            /\ events' = events
            /\ raised' = raised]_vars
    /\ [][/\ route_message(FALSE, ClassifierRaises) = [code |-> "4", calls |-> 1]
          /\ route_message(TRUE, ClassifierRaises) = [code |-> "3", calls |-> 1]]_vars
    /\ [](turn.classifier_calls <= 1)

\* C13 witness: a turn whose classification call failed was answered by the
\* General-Inquiry handler after a single call of the classifier.
C13_Witness ==
    /\ turn.pc = "returned"
    /\ turn.classifier = ClassifierRaises
    /\ turn.classifier_calls = 1
    /\ turn.assistant_number = "4"
    /\ turn.handler = "general_inquiry"
    /\ StreamEnds(events) # <<>>

\* The turn is past _dispatch_to_handler in standard mode, and no handler
\* constructor raised.
StandardDispatched ==
    /\ ~turn.use_agent
    /\ turn.pc \notin {"request", "route", "dispatch"}
    /\ turn.status # 410
    /\ turn.failure # "construct"

\* C12: in standard mode, whenever the classifier returns a value other than
\* "1".."5" or raises, the turn is dispatched to the General-Inquiry handler
\* and no exception reaches the caller: the routing decision is never left
\* without a handler.
C12_RouterDefault ==
    (StandardDispatched /\ turn.classifier \notin RoutingCodes) =>
        (turn.handler = "general_inquiry" /\ ~raised)

\* An unrecognised reply of the classifier leaves the turn without a handler:
\* handler() returns 200 and nothing was sent.
UnroutedTurn ==
    /\ turn.pc = "returned"
    /\ turn.status = 200
    /\ turn.classifier = "6"
    /\ turn.handler = "none"
    /\ events = <<>>

\* The turn passed connection validation and handler() has returned.
TurnOver == turn.pc = "returned" /\ turn.status # 410

\* C14: every turn that passes connection validation ends in a terminal state
\* visible to the client: when handler() returns, a stream_end event or an
\* error event has been sent, whatever the routing code and the reply of the
\* generator.
C14_TerminalVisible ==
    TurnOver => (StreamEnds(events) # <<>> \/ Errors(events) # <<>>)

\* A product-search reply that requests no tool ends the turn after the wait
\* message alone.
SilentProductSearch ==
    /\ TurnOver
    /\ turn.handler = "product_search"
    /\ Data(events) = <<Wait(WaitSearch)>>

\* The stages of a turn in which the reply is produced: the handler or the
\* agent is set up, tools run, the generator is called and its stream read.
ReplyStages == {"construct", "setup", "generate", "streaming", "tool"}

\* The step in which a failure of one of these stages is caught.
FailureStep == turn.pc # "returned" /\ turn'.failure \in ReplyStages

\* C15: a failure during generation, streaming or tool execution makes the
\* turn emit exactly one error event and stop: the step that catches it sends
\* the error event and nothing else and persists no response, and afterwards
\* no event is sent, nothing is persisted and the turn is not dispatched
\* again.
C15_FailStop ==
    /\ [][FailureStep =>
            /\ Len(NewEvents) = 1
            /\ NewEvents[1].data.type = "error"
            /\ turn'.pc = "returned"
            /\ turn'.persisted = turn.persisted]_vars
    /\ [][turn.failure \in ReplyStages =>
            /\ events' = events
            /\ turn' = turn]_vars
    /\ [](turn.failure \in ReplyStages => Len(Errors(events)) = 1)

\* C15 witness: a stream that failed after text had been sent ended the turn
\* with one error event, the last event of the log, and nothing persisted.
C15_Witness ==
    /\ turn.pc = "returned"
    /\ turn.failure = "streaming"
    /\ TextChunks(events) # <<>>
    /\ Len(Errors(events)) = 1
    /\ events[Len(events)].data.type = "error"
    /\ StreamEnds(events) = <<>>
    /\ turn.persisted = 0

\* The step in which the response is saved, after the stream has ended.
SaveStep == turn.pc = "persist" /\ turn'.pc # "persist"

\* C16: a failure of the persistence write after the stream has completed is
\* never surfaced to the client: in standard and in agent mode the step that
\* saves the conversation sends no event, whether the write fails or not.
C16_PersistenceSilent == [][SaveStep => events' = events]_vars

\* In standard mode the saving step sends no event.
StandardPersistenceSilent ==
    [][SaveStep /\ ~turn.use_agent => events' = events]_vars

\* An agent turn whose stream ended and whose save failed: the error event
\* follows the stream_end event.
ErrorAfterStreamEnd ==
    /\ turn.pc = "returned"
    /\ turn.use_agent
    /\ turn.failure = "persist"
    /\ Len(events) >= 2
    /\ events[Len(events) - 1].data = StreamEnd
    /\ events[Len(events)].data = Error(ErrAgentStream)

\* The fixed messages of the error events.
GenericMessages ==
    {ErrOrders, ErrSearch, ErrRequest, ErrDispatch, ErrAgentMode, ErrAgentStream}

\* The events that carry a message.
Messages(evs) == OfType(evs, {"wait", "error"})

\* The text of an exception is part of message m.
Leaks(m) == \E k \in 1..Len(m) : m[k] \in ExceptionTexts

\* C17: every error event sent to the client carries a generic message of a
\* fixed set, and the text of an internal exception is part of no event, in
\* standard and in agent mode.
C17_GenericErrors ==
    /\ \A k \in 1..Len(Errors(events)) : Errors(events)[k].message \in GenericMessages
    /\ \A k \in 1..Len(Messages(events)) : ~Leaks(Messages(events)[k].message)

\* In standard mode every error event carries a message of the fixed set.
StandardGenericErrors ==
    ~turn.use_agent =>
        \A k \in 1..Len(Errors(events)) : Errors(events)[k].message \in GenericMessages

\* An agent turn whose set-up failed: the error event holds the text of the
\* exception.
LeakedException ==
    /\ turn.pc = "returned"
    /\ turn.failure = "setup"
    /\ Len(events) = 1
    /\ events[1].data.type = "error"
    /\ Leaks(events[1].data.message)

\* The identifier string of the section the step resolves.
SectionGroup ==
    IF PRODUCTS_PATTERN(Scanned).found
    THEN PRODUCTS_PATTERN(Scanned).group
    ELSE ORDERS_PATTERN(Scanned).group

\* A step that resolves a section whose identifiers are found and name no
\* record of the reference collection.
UnresolvedSectionStep == EmptySectionStep /\ TokenSet(SectionGroup) # {}

\* C21 (as claimed): when a section's identifiers are found but cannot be
\* resolved, the unresolved span is delivered to the client in a text_chunk,
\* and no exception is raised.
C21_UnresolvedAsText ==
    [][UnresolvedSectionStep =>
          /\ Contains(Displayed(NewEvents), strip(SectionGroup))
          /\ raised' = raised]_vars

\* Such a step raises nothing and sends no event for the span: at most the
\* text before the open marker is sent.
UnresolvedDropped ==
    [][UnresolvedSectionStep =>
          /\ raised' = raised
          /\ StructuredEntries(NewEvents) = <<>>
          /\ ~Contains(Displayed(NewEvents), strip(SectionGroup))]_vars

\* A stream whose section lists an unknown identifier has ended: the
\* identifier is in no event.
UnresolvedLost ==
    /\ closed
    /\ Text = PRODUCTS_OPEN \o IdsZZ \o PRODUCTS_CLOSE \o TxtBye
    /\ Data(events) = <<StreamEnd>>

\* The posts of a logged send that failed.
FailedPosts(e) == IF e.ok THEN e.posts - 1 ELSE e.posts

RECURSIVE SumFailedPosts(_)
SumFailedPosts(evs) ==
    IF evs = <<>> THEN 0 ELSE FailedPosts(Head(evs)) + SumFailedPosts(Tail(evs))

\* C29: for every event the parser sends, post_to_connection is invoked at
\* least once and at most max_retries times; the send fails (raises to its
\* caller inside the parser) only after max_retries failed posts; and no post
\* follows the first success: the failed posts of a step are exactly the
\* failures the sink had in store, and every post fails on a connection that
\* is gone.
C29_BoundedRetry ==
    [][/\ \A k \in 1..Len(NewEvents) :
            /\ NewEvents[k].posts \in 1..max_retries
            /\ ~NewEvents[k].ok => NewEvents[k].posts = max_retries
       /\ sink # Gone => SumFailedPosts(NewEvents) = sink - sink'
       /\ sink = Gone => \A k \in 1..Len(NewEvents) : ~NewEvents[k].ok]_vars

\* C29 witness: an event was delivered by the third post, after two failures,
\* and the events after it by their first post.
C29_Witness ==
    /\ closed
    /\ Len(events) >= 2
    /\ events[1].posts = max_retries
    /\ events[1].ok
    /\ \A k \in 2..Len(events) : events[k].posts = 1 /\ events[k].ok

\* A send was given up after three failed posts and the next event was sent
\* again from the first attempt.
GivenUpAfterThree ==
    /\ Len(events) >= 2
    /\ events[1].posts = max_retries
    /\ ~events[1].ok
    /\ events[2].posts = 1
    /\ events[2].ok

\* The connection was lost while a stream of a standard-mode turn was read.
LostWhileStreaming == ~turn.use_agent /\ turn.lost = "streaming"

\* C25: when the connection becomes invalid during streaming, so that every
\* later send fails, a standard-mode turn rolls nothing back and is not
\* aborted by the failing sends: each further increment is parsed without an
\* exception, and a turn that returns without a failure of the generator or a
\* tool has consumed the whole stream, called finalize() and handed the
\* complete response text to the conversation store.
C25_CancellationCompletes ==
    /\ [][LostWhileStreaming /\ turn.pc = "streaming" /\ Incoming # <<>> =>
            /\ turn' = turn
            /\ raised' = raised
            /\ complete_response' = complete_response \o Incoming]_vars
    /\ [][/\ Len(events') >= Len(events)
          /\ SubSeq(events', 1, Len(events)) = events
          /\ turn'.persisted >= turn.persisted
          /\ Len(turn'.handed) >= Len(turn.handed)]_vars
    /\ [](LostWhileStreaming /\ turn.pc = "returned"
              /\ turn.failure \in {"none", "persist"} =>
            /\ ~raised
            /\ closed
            /\ complete_response = Text
            /\ turn.handed # <<>>
            /\ turn.handed[Len(turn.handed)] = Text
            /\ StreamEnds(events) # <<>>)

\* C25 witness: the connection was lost in the middle of an order-history
\* stream; the order event and stream_end were still handed to the sink, each
\* failing after three posts, and the whole response was handed to the store.
C25_Witness ==
    /\ LostWhileStreaming
    /\ turn.pc = "returned"
    /\ turn.handler = "order_history"
    /\ turn.failure = "none"
    /\ turn.handed = <<ReplyOrders.text>>
    /\ Len(events) = 3
    /\ events[1].ok
    /\ events[2].data.type = "order" /\ ~events[2].ok
    /\ events[3] = [data |-> StreamEnd, posts |-> max_retries, ok |-> FALSE]

\* The step in which the stream announces a tool invocation.
ToolUseStep == turn.pc = "streaming" /\ (turn'.pc = "tool" \/ flushes' = flushes + 1)

\* The text the parser withheld is sent by the step, and nothing stays
\* withheld.
BufferFlushed ==
    /\ buffer' = <<>>
    /\ strip(buffer) # <<>> =>
          \E k \in 1..Len(NewEvents) : NewEvents[k].data = TextChunk(buffer)

\* C22 (as claimed): when the stream signals a tool invocation the active
\* parser is flushed before the tool runs, in the product-comparison handler
\* and in agent mode: the text it withheld is delivered and none stays in an
\* abandoned parser.
C22_FlushBeforeTool == [][ToolUseStep => BufferFlushed]_vars

\* In agent mode the parser is flushed when the tool invocation is announced.
AgentFlushesBeforeTool == [][ToolUseStep /\ turn.use_agent => BufferFlushed]_vars

\* A product-comparison turn goes on to run its tool while the text received
\* so far is withheld in the parser of the first leg: no text was displayed.
WithheldAtToolCall ==
    /\ turn.handler = "compare_products"
    /\ turn.pc = "tool"
    /\ complete_response = TxtBye
    /\ buffer = TxtBye
    /\ Data(events) = <<Wait(WaitCompare)>>

\* An increment of a continuation leg is parsed: text that arrives after a
\* tool invocation of the turn's stream.
ContinuationStep == turn.pc = "streaming" /\ turn.tools > 0 /\ Incoming # <<>>

\* C23 (as claimed): after a tool invocation the increments of the
\* continuation leg are parsed by a new StreamParser session, one per leg,
\* created with the tool's results as its reference collection; the session
\* of the pre-tool leg receives nothing more: when the tool is announced the
\* turn leaves that parser, or at least no content_sent flag is carried into
\* the continuation.
C23_NewSessionPerLeg ==
    /\ [][ContinuationStep => turn.sessions = turn.tools + 1]_vars
    /\ [][turn.pc = "streaming" /\ turn'.tools = turn.tools + 1 =>
            \/ turn'.pc = "tool"
            \/ ~content_sent']_vars

\* In the product-comparison handler the continuation is parsed by a second
\* parser, created with the search results of the tool.
CompareContinuationIsNew ==
    [][ContinuationStep /\ turn.handler = "compare_products" =>
          /\ turn.sessions = 2
          /\ search_results = SearchP1P2
          /\ Len(complete_response) + Len(Incoming) <= Len(Text)]_vars

\* An agent turn resolved an Orders section, ran a tool and read the rest of
\* its stream with the same parser: content_sent carried over and the text
\* of the continuation was suppressed.
ContinuationSuppressed ==
    /\ turn.pc = "persist"
    /\ turn.handler = "agent"
    /\ turn.tools = 1
    /\ turn.sessions = 1
    /\ flushes = 1
    /\ Text = ReplyAgentOrders.text
    /\ search_results = SearchP1P2
    /\ Len(events) = 3
    /\ events[2].data.type = "order"
    /\ events[3].data = StreamEnd

\* The handlers of standard mode whose generator may call a tool.
ToolHandlers == {"product_search", "compare_products"}

PastRouting == turn.pc \notin {"request", "route"} /\ turn.status # 410

\* C26 (as claimed): every turn starts in Routing: in standard mode and in
\* agent mode the router's classifier has been invoked before a handler is
\* chosen, context is built or generation is started.
C26_RoutingFirst == PastRouting => turn.classifier_calls = 1

\* In standard mode the classifier has been invoked once before dispatch.
StandardRoutingFirst ==
    PastRouting /\ ~turn.use_agent => turn.classifier_calls = 1

\* An agent turn generated its reply although the classifier was never
\* invoked: its routing code is the constant "4".
UnroutedAgentTurn ==
    /\ turn.use_agent
    /\ turn.pc = "returned"
    /\ turn.generations = 1
    /\ turn.classifier_calls = 0
    /\ turn.classifier = "none"
    /\ turn.assistant_number = "4"
    /\ StreamEnds(events) # <<>>

\* ---------------------------------------------------------------------
\* C27

\* The current user message as an element of the generation input.
UserEntry == [role |-> "user", content |-> UserMessage]

\* How many elements of the generation input are the current user message.
UserEntries == Cardinality({k \in 1..Len(turn.input) : turn.input[k] = UserEntry})

\* A handler has built the generation input of the turn.
HistoryIsBuilt == turn.input # <<>>

\* C27: the generation input built for a turn contains the current user
\* message exactly once, as its last element.
C27_UserMessageOnce ==
    HistoryIsBuilt => turn.input[Len(turn.input)] = UserEntry /\ UserEntries = 1

\* What the code does: the current user message is the last element of the
\* generation input, and it is in it a second time exactly when the store
\* took the save that precedes the load.
UserMessageLastAndSavedCopy ==
    HistoryIsBuilt =>
        /\ turn.input[Len(turn.input)] = UserEntry
        /\ UserEntries = IF StoreUp THEN 2 ELSE 1

\* A handler that saved the user message itself and then built a generation
\* input that ends with two copies of it.
UserMessageTwice ==
    /\ turn.handler = "order_history"
    /\ Len(turn.input) = 2
    /\ turn.input[1] = UserEntry
    /\ turn.input[2] = UserEntry

\* ---------------------------------------------------------------------
\* C28

\* The objects that write conversations: the router and the five handlers.
ConversationWriters ==
    {"router", "order_history", "product_search", "product_details",
     "general_inquiry", "compare_products"}

\* The stored records that the history of the turn was loaded from were all
\* written by the handler of the turn.
LoadedFromOwnRecords ==
    \A k \in 1..Len(turn.loaded) : turn.loaded[k].by = turn.handler

\* C28: the history loaded for a handler contains only messages that the
\* same handler appended; the router and the five handlers each use a
\* distinct conversation key, so no record of the router is in a handler's
\* generation input.
C28_HandlerIsolation ==
    HistoryIsBuilt =>
        /\ LoadedFromOwnRecords
        /\ \A w \in ConversationWriters \ {turn.handler} :
               handler_type(w) # handler_type(turn.handler)

\* What the code does: the four handlers that set a handler_type of their
\* own load their own records only, under a key no other writer uses.
IsolatedWithOwnKey ==
    HistoryIsBuilt /\ turn.handler # "compare_products" =>
        /\ LoadedFromOwnRecords
        /\ \A w \in ConversationWriters \ {turn.handler} :
               handler_type(w) # handler_type(turn.handler)

\* The product comparison handler generates from the router's copy of the
\* user message and from the routing decision.
RouterRecordsInInput ==
    /\ turn.handler = "compare_products"
    /\ turn.pc = "returned"
    /\ Len(turn.input) = 3
    /\ turn.input[1] = UserEntry
    /\ turn.input[2] = [role |-> "system", content |-> RoutingDecision("5")]
    /\ turn.loaded[1].by = "router"
    /\ turn.loaded[2].by = "router"

\* ---------------------------------------------------------------------
\* C30

\* The stored list of the conversation that the calls write.
StoredMessages == conversations[writers[1].handler_type]

\* The message that call w appended is in the stored list.
Kept(w) == \E k \in 1..Len(StoredMessages) : StoredMessages[k] = writers[w].message

\* C30: under two concurrent add_message_to_handler calls on the same
\* conversation no appended message is lost: a message that a call appended
\* is in the stored list from then on, whatever the other call does in
\* between the append and the trim.
C30_NoLostAppend ==
    writers # <<>> => \A w \in Callers : writers[w].appended => Kept(w)

\* What the code does: the append itself is atomic, so that both messages
\* are kept as long as no call has trimmed from a list older than the other
\* call's append.
KeptUnlessStaleTrim ==
    writers # <<>> =>
        \A w \in Callers :
            writers[w].appended =>
                \/ Kept(w)
                \/ \E v \in Callers \ {w} :
                       /\ writers[v].pc = "done"
                       /\ Len(writers[v].messages) > TrimAbove
                       /\ \A k \in 1..Len(writers[v].messages) :
                              writers[v].messages[k] # writers[w].message

\* Both calls have returned, both appended, and the stored list lacks the
\* message of the second: the first call trimmed from the list it had read
\* before the second call's append.
AppendedMessageLost ==
    /\ writers # <<>>
    /\ \A w \in Callers : writers[w].pc = "done" /\ writers[w].appended
    /\ Kept(1)
    /\ ~Kept(2)
    /\ Len(StoredMessages) = TrimTo

====
